---- MODULE Spec2Model ----
(***************************************************************************)
(* Model of specialsoss/binning.py: bin_counts and extract.                *)
(*                                                                         *)
(* numpy arrays are records [dtype, shape, v] whose v is a function over   *)
(* 0-based indices, one level per axis.  A cell of a data cube is either   *)
(* NaN or Num(n).  counts and flux cells are integers: nansum never        *)
(* returns NaN for the finite values modelled here.  unc cells are random  *)
(* draws, kept symbolically (see NormalCell).  Python lists are sequences  *)
(* (element k of the list is [k+1]).                                       *)
(***************************************************************************)
EXTENDS Integers, Sequences, FiniteSets, TLC

VARIABLES data, data0, args, calls, lookup, pixel_masks, pc, n, results, counts, raw, combined

vars == <<data, data0, args, calls, lookup, pixel_masks, pc, n, results, counts, raw, combined>>

(***************************************************************************)
(* Bounds of the model.                                                    *)
(***************************************************************************)
MaxFrames == 2
MaxGroups == 2
MaxCalls == 2

(***************************************************************************)
(* Values and index helpers.                                               *)
(***************************************************************************)
NaN == <<>>
Num(x) == <<x>>
IsNaN(c) == c = NaN
Range(k) == 0..(k - 1)
None == [kind |-> "None"]

RECURSIVE SeqSum(_)
SeqSum(s) == IF s = <<>> THEN 0 ELSE Head(s) + SeqSum(Tail(s))

\* One cell of data * mask: NaN times anything (0 included) is NaN.
CellMul(c, m) == IF IsNaN(c) THEN NaN ELSE Num(c[1] * m)

\* np.nansum over a sequence of cells: NaN counts as zero.
nansum(cells) == SeqSum([i \in 1..Len(cells) |-> IF IsNaN(cells[i]) THEN 0 ELSE cells[i][1]])

\* A reshape that walks the first axis fastest (Fortran order).
reshape_F(d) ==
    LET F == d.shape[1]
        G == d.shape[2]
    IN  [dtype |-> d.dtype,
         shape |-> <<F * G, d.shape[3], d.shape[4]>>,
         v |-> [k \in Range(F * G) |-> d.v[k % F][k \div F]]]

\* data.reshape((F*G, R, C)) of a C-ordered 4D array: row f*G+g is [f][g].
reshape(d) ==
    LET F == d.shape[1]
        G == d.shape[2]
    IN  [dtype |-> d.dtype,
         shape |-> <<F * G, d.shape[3], d.shape[4]>>,
         v |-> [k \in Range(F * G) |-> d.v[k \div G][k % G]]]

\* Writing a (F*G, R, C) view back through to the 4D array it views.
unreshape(d, d3) ==
    LET G == d.shape[2]
    IN  [d EXCEPT !.v = [f \in Range(d.shape[1]) |-> [g \in Range(G) |-> d3.v[f * G + g]]]]

\* A mask test that lets through every shape that broadcasts.
MaskApplies_Broadcast(d3, pixel_mask) ==
    /\ pixel_mask.kind = "ndarray"
    /\ pixel_mask.shape[1] \in {1, d3.shape[2]}
    /\ pixel_mask.shape[2] \in {1, d3.shape[3]}

\* The mask test of bin_counts: an ndarray of the data's spatial shape.
MaskApplies(d3, pixel_mask) ==
    /\ pixel_mask.kind = "ndarray"
    /\ pixel_mask.shape = <<d3.shape[2], d3.shape[3]>>

\* data *= mask casts the product back to data's dtype under numpy's
\* same_kind rule: a float product does not go into an integer array.
ImulRaises(d3, pixel_mask) == d3.dtype = "int" /\ pixel_mask.dtype = "float"

\* pixel_mask[None, :, :] broadcast against a frame: an axis of length 1
\* is repeated, any other axis is indexed as it is.
MaskAt(pixel_mask, x, y) ==
    pixel_mask.v[IF pixel_mask.shape[1] = 1 THEN 0 ELSE x][IF pixel_mask.shape[2] = 1 THEN 0 ELSE y]

\* data *= pixel_mask[None, :, :]
imul(d3, pixel_mask) ==
    [d3 EXCEPT !.v = [f \in Range(d3.shape[1]) |->
                        [x \in Range(d3.shape[2]) |->
                           [y \in Range(d3.shape[3]) |->
                              CellMul(d3.v[f][x][y], MaskAt(pixel_mask, x, y))]]]]

\* np.nansum(data[:, xpix, ypix], axis=1) for one frame and one bin.
BinSum(d3, f, bin) ==
    nansum([i \in 1..Len(bin.xpix) |-> d3.v[f][bin.xpix[i]][bin.ypix[i]]])

\* The array the sums are taken over, after the in-place multiply.
Summed(d, pixel_mask) ==
    LET d3 == IF Len(d.shape) = 4 THEN reshape(d) ELSE d
    IN  IF MaskApplies(d3, pixel_mask) THEN imul(d3, pixel_mask) ELSE d3

\* Whether data.reshape((F*G, R, C)) is a view of the 4D array: numpy
\* copies only when the first two axes cannot be merged by strides.  An
\* axis of length 1 always merges; otherwise the array's layout decides
\* (mergeable: stride[0] = G * stride[1]).
ReshapeIsView(d) == d.shape[1] = 1 \/ d.shape[2] = 1 \/ d.mergeable

\* The caller's array after the call: the multiply is in place, so it is
\* seen through the 3D array itself and through a reshaped view; a
\* reshape that had to copy leaves the caller's array alone.
Written(d, pixel_mask) ==
    LET d3 == IF Len(d.shape) = 4 THEN reshape(d) ELSE d
    IN  IF ~MaskApplies(d3, pixel_mask) THEN d
        ELSE IF Len(d.shape) = 3 THEN imul(d3, pixel_mask)
        ELSE IF ReshapeIsView(d) THEN unreshape(d, imul(d3, pixel_mask))
        ELSE d

\* bin_counts(data, wavebins, pixel_mask): what it returns or that it
\* raised, and the caller's data array afterwards.
bin_counts(d, wavebins, pixel_mask) ==
    LET d3 == IF Len(d.shape) = 4 THEN reshape(d) ELSE d
        s  == Summed(d, pixel_mask)
    IN  IF MaskApplies(d3, pixel_mask) /\ ImulRaises(d3, pixel_mask)
        THEN [raised |-> TRUE, counts |-> None, data |-> d]
        ELSE [raised |-> FALSE,
              counts |-> [shape |-> <<d3.shape[1], Len(wavebins)>>,
                          v |-> [f \in Range(d3.shape[1]) |->
                                   [b \in Range(Len(wavebins)) |->
                                      BinSum(s, f, wavebins[b + 1])]]],
              data |-> Written(d, pixel_mask)]

(***************************************************************************)
(* Inputs: synthetic cubes, masks and bin lists on a 2 x 2 detector.       *)
(***************************************************************************)
Rows == {0, 1}
Cols == {0, 1}
Pixels == Rows \X Cols

\* An arange-like frame: pixel (x, y) of frame k holds 4k + 2x + y + 1,
\* so frame 0 is [[1, 2], [3, 4]]; the pixels in holes are NaN.
Frame(k, holes) ==
    [x \in Rows |-> [y \in Cols |->
        IF <<x, y>> \in holes THEN NaN ELSE Num(4 * k + 2 * x + y + 1)]]

Cube3(N, holes, dtype) ==
    [dtype |-> dtype, shape |-> <<N, 2, 2>>, mergeable |-> TRUE,
     v |-> [f \in Range(N) |-> Frame(f, holes)]]

\* mergeable is the layout of the first two axes in memory (see
\* ReshapeIsView); both layouts exist for every shape.
Cube4(F, G, holes, dtype, mergeable) ==
    [dtype |-> dtype, shape |-> <<F, G, 2, 2>>, mergeable |-> mergeable,
     v |-> [f \in Range(F) |-> [g \in Range(G) |-> Frame(f * G + g, holes)]]]

\* Integer arrays hold no NaN.
Contents == {<<h, "float">> : h \in SUBSET Pixels} \cup {<<{}, "int">>}

Cubes ==
    {Cube3(N, c[1], c[2]) : N \in 1..MaxFrames, c \in Contents}
    \cup {Cube4(sh[1], sh[2], c[1], c[2], sh[3]) :
            sh \in (1..MaxFrames) \X (1..MaxGroups) \X BOOLEAN, c \in Contents}

Mask(shape, dtype, v) == [kind |-> "ndarray", dtype |-> dtype, shape |-> shape, v |-> v]

\* 0/1 masks of the detector's shape, one weight mask, and two masks of
\* another shape.
Masks ==
    {Mask(<<2, 2>>, dt, [x \in Rows |-> [y \in Cols |-> IF <<x, y>> \in on THEN 1 ELSE 0]]) :
        dt \in {"float", "int"}, on \in SUBSET Pixels}
    \cup {Mask(<<2, 2>>, "float", [x \in Rows |-> [y \in Cols |-> 2 - x]]),
          Mask(<<1, 2>>, "float", [x \in {0} |-> [y \in Cols |-> 0]]),
          Mask(<<2, 3>>, "int", [x \in Rows |-> [y \in 0..2 |-> 0]])}

Bin(xpix, ypix) == [xpix |-> xpix, ypix |-> ypix]

BinLists ==
    { <<>>,
      <<Bin(<<0, 0, 1, 1>>, <<0, 1, 0, 1>>)>>,
      <<Bin(<<0, 1>>, <<0, 0>>), Bin(<<0, 1>>, <<1, 1>>)>>,
      <<Bin(<<0>>, <<1>>), Bin(<<>>, <<>>), Bin(<<1, 1>>, <<0, 1>>)>>,
      <<Bin(<<1, 1>>, <<0, 0>>), Bin(<<0>>, <<0>>)>> }

(***************************************************************************)
(* A caller of bin_counts: one array, one argument list, repeated calls.   *)
(***************************************************************************)
Idle ==
    /\ lookup = <<>>
    /\ pixel_masks = None
    /\ pc = "bin_counts"
    /\ n = 0
    /\ results = <<>>
    /\ counts = None
    /\ raw = <<>>
    /\ combined = <<>>

Init ==
    /\ data \in Cubes
    /\ data0 = data
    /\ args \in [wavebins : BinLists, pixel_mask : Masks \cup {None}]
    /\ calls = <<>>
    /\ Idle

extractVars == <<lookup, pixel_masks, pc, n, results, counts, raw, combined>>

\* counts = bin_counts(data, wavebins, pixel_mask) returns.
Call ==
    /\ pc = "bin_counts"
    /\ Len(calls) < MaxCalls
    /\ LET r == bin_counts(data, args.wavebins, args.pixel_mask)
       IN  /\ ~r.raised
           /\ data' = r.data
           /\ calls' = Append(calls, [raised |-> FALSE, counts |-> r.counts, before |-> data])
    /\ UNCHANGED <<data0, args, extractVars>>

\* bin_counts(data, wavebins, pixel_mask) raises out of the in-place multiply.
CallRaises ==
    /\ pc = "bin_counts"
    /\ Len(calls) < MaxCalls
    /\ LET r == bin_counts(data, args.wavebins, args.pixel_mask)
       IN  /\ r.raised
           /\ data' = r.data
           /\ calls' = Append(calls, [raised |-> TRUE, counts |-> None, before |-> data])
    /\ UNCHANGED <<data0, args, extractVars>>

Next == Call \/ CallRaises

Spec == Init /\ [][Next]_vars

(***************************************************************************)
(* extract: the collaborators.                                             *)
(***************************************************************************)
Min(a, b) == IF a < b THEN a ELSE b

Vec(s) == [shape |-> <<Len(s)>>, v |-> [i \in Range(Len(s)) |-> s[i + 1]]]

\* utils.counts_to_flux: each count scaled by the order's response at the
\* bin's wavelength.
counts_to_flux(wavelength, c, order) ==
    [shape |-> c.shape,
     v |-> [f \in Range(c.shape[1]) |-> [b \in Range(c.shape[2]) |->
              c.v[f][b] * (wavelength.v[b] + order)]]]

\* np.random.normal raises ValueError when a scale is negative.
NormalRaises(flux) ==
    \E f \in Range(flux.shape[1]) : \E b \in Range(flux.shape[2]) : flux.v[f][b] < 0

\* One cell of np.random.normal(loc, scale=loc*0.01): the real number
\* loc + 0.01 * loc * z(k), where z(k) is the k-th standard normal deviate
\* the generator hands out after extract is entered.  The deviate is an
\* unknown real, so the cell is kept as the pair of loc and k; with loc = 0
\* the scale is 0 and the cell is exactly 0 whatever the deviate.
NormalCell(loc, k) == [loc |-> loc, z |-> IF loc = 0 THEN 0 ELSE k]

\* np.random.normal(loc=flux, scale=flux*0.01): one deviate per cell, drawn
\* in row-major order starting with deviate number first.
random_normal(flux, first) ==
    [shape |-> flux.shape,
     v |-> [f \in Range(flux.shape[1]) |-> [b \in Range(flux.shape[2]) |->
              NormalCell(flux.v[f][b], first + f * flux.shape[2] + b)]]]

\* wavelength.argsort(): any index order that puts the wavelengths in
\* non-decreasing order (the sort is not stable).
argsort(wavelength) ==
    LET B == wavelength.shape[1]
    IN  {idx \in [Range(B) -> Range(B)] :
           /\ \A i, j \in Range(B) : i # j => idx[i] # idx[j]
           /\ \A i, j \in Range(B) : i < j => wavelength.v[idx[i]] <= wavelength.v[idx[j]]}

\* wavelength[idx]
take(a, idx) == [shape |-> a.shape, v |-> [j \in Range(a.shape[1]) |-> a.v[idx[j]]]]

\* Columns left where they were.
take_columns_Unsorted(a, idx) == a

\* a[:, idx]
take_columns(a, idx) ==
    [shape |-> a.shape,
     v |-> [f \in Range(a.shape[1]) |-> [j \in Range(a.shape[2]) |-> a.v[f][idx[j]]]]]

\* 'order{}'.format(n+1)
OrderName(k) == CASE k = 1 -> "order1" [] k = 2 -> "order2" [] k = 3 -> "order3"

RECURSIVE InsertCol(_, _)
InsertCol(sorted, col) ==
    IF sorted = <<>> THEN <<col>>
    ELSE IF col[1] < Head(sorted)[1] THEN <<col>> \o sorted
    ELSE <<Head(sorted)>> \o InsertCol(Tail(sorted), col)

RECURSIVE SortCols(_)
SortCols(cols) ==
    IF cols = <<>> THEN <<>> ELSE InsertCol(SortCols(SubSeq(cols, 1, Len(cols) - 1)), cols[Len(cols)])

\* np.array([wavelength, flux[row], unc[row]])
Triple(rec, row) == [wave |-> rec.wavelength.v, flux |-> rec.flux.v[row], unc |-> rec.unc.v[row]]

\* utilities.combine_spectra: one (wavelength, flux, uncertainty) triple
\* holding the columns of both spectra in wavelength order.
combine_spectra(spec1, spec2) ==
    LET cols(sp) == [i \in 1..Cardinality(DOMAIN sp.wave) |-> <<sp.wave[i - 1], sp.flux[i - 1], sp.unc[i - 1]>>]
        merged == SortCols(cols(spec1) \o cols(spec2))
    IN  [wave |-> [i \in Range(Len(merged)) |-> merged[i + 1][1]],
         flux |-> [i \in Range(Len(merged)) |-> merged[i + 1][2]],
         unc |-> [i \in Range(Len(merged)) |-> merged[i + 1][3]]]

(***************************************************************************)
(* extract: inputs.                                                        *)
(***************************************************************************)
OrderBins1 == <<Bin(<<0, 1>>, <<0, 0>>), Bin(<<0, 1>>, <<1, 1>>)>>
OrderBins2 == <<Bin(<<0>>, <<0>>), Bin(<<0, 1>>, <<1, 1>>), Bin(<<1>>, <<0>>)>>
OrderBins3 == <<Bin(<<1, 1>>, <<0, 1>>)>>

\* What lt.trace_wavelengths and lt.wavelength_bins return: one wavelength
\* array and one bin list per order, for two or for three orders.
Lookups ==
    { [wavelengths |-> <<Vec(<<2, 1>>), Vec(<<1, 3, 1>>)>>,
       wavebins |-> <<OrderBins1, OrderBins2>>],
      [wavelengths |-> <<Vec(<<2, 1>>), Vec(<<1, 3, 1>>), Vec(<<2>>)>>,
       wavebins |-> <<OrderBins1, OrderBins2, OrderBins3>>] }

OnesMask(dtype) == Mask(<<2, 2>>, dtype, [x \in Rows |-> [y \in Cols |-> 1]])
Col0Mask == Mask(<<2, 2>>, "float", [x \in Rows |-> [y \in Cols |-> 1 - y]])

\* A weight mask that subtracts pixel (1, 1).
NegMask == Mask(<<2, 2>>, "float", [x \in Rows |-> [y \in Cols |-> 1 - 2 * x * y]])

ExtractMasks == {OnesMask("float"), OnesMask("int"), Col0Mask, NegMask}

List(s) == [kind |-> "list", items |-> s]

MaskLists == {List(s) : s \in {<<>>} \cup UNION {[1..k -> ExtractMasks] : k \in 1..3}}

ExtractContents == {<<{}, "float">>, <<{<<0, 1>>}, "float">>, <<{}, "int">>}

ExtractCubes ==
    {Cube3(N, c[1], c[2]) : N \in 1..MaxFrames, c \in ExtractContents}
    \cup {Cube4(sh[1], sh[2], c[1], c[2], sh[3]) :
            sh \in (1..MaxFrames) \X (1..MaxGroups) \X BOOLEAN, c \in ExtractContents}

(***************************************************************************)
(* extract: the function, one loop iteration at a time.                    *)
(***************************************************************************)
\* A default taken whenever pixel_masks is falsy.
MasksOf_Falsy(masks, d) ==
    IF masks = None \/ masks = List(<<>>)
    THEN <<OnesMask("float"), OnesMask("float")>>
    ELSE masks.items

\* pixel_masks, defaulted to np.ones((2, rows, cols)) when None.
MasksOf(masks, d) ==
    IF masks = None THEN <<OnesMask("float"), OnesMask("float")>> ELSE masks.items

\* The number of iterations zip(wavelengths, wavebins, pixel_masks) makes.
Zipped == Min(Min(Len(lookup.wavelengths), Len(lookup.wavebins)), Len(MasksOf(pixel_masks, data)))

\* The number of deviates np.random.normal has handed out so far: one per
\* cell of every unc array made.
Drawn == SeqSum([i \in 1..Len(raw) |-> raw[i].unc.shape[1] * raw[i].unc.shape[2]])

\* nframes = data.shape[0]
nframes == data.shape[1]

\* The counts stored in the final record: a reading of order 1's counts.
FinalCounts_Order1(res, c) == res["order1"].counts

\* The counts stored in the final record: the loop's last counts.
FinalCounts(res, c) == c

InitExtract ==
    /\ data \in ExtractCubes
    /\ data0 = data
    /\ args = None
    /\ calls = <<>>
    /\ lookup \in Lookups
    /\ pixel_masks \in MaskLists \cup {None}
    /\ pc = "extract"
    /\ n = 0
    /\ results = <<>>
    /\ counts = None
    /\ raw = <<>>
    /\ combined = <<>>

\* One iteration of the loop over the orders, to the end of its body.
ExtractOrder ==
    /\ pc = "extract"
    /\ n < Zipped
    /\ LET wavelength == lookup.wavelengths[n + 1]
           r == bin_counts(data, lookup.wavebins[n + 1], MasksOf(pixel_masks, data)[n + 1])
       IN  /\ ~r.raised
           /\ ~NormalRaises(counts_to_flux(wavelength, r.counts, n + 1))
           /\ \E idx \in argsort(wavelength) :
                LET flux == counts_to_flux(wavelength, r.counts, n + 1)
                    unc == random_normal(flux, Drawn)
                    rec == [counts |-> take_columns(r.counts, idx),
                            flux |-> take_columns(flux, idx),
                            unc |-> take_columns(unc, idx),
                            wavelength |-> take(wavelength, idx)]
                IN  /\ results' = (OrderName(n + 1) :> rec) @@ results
                    /\ counts' = rec.counts
                    /\ raw' = Append(raw, [counts |-> r.counts, flux |-> flux, unc |-> unc,
                                           wavelength |-> wavelength, before |-> data])
           /\ data' = r.data
    /\ n' = n + 1
    /\ UNCHANGED <<data0, args, calls, lookup, pixel_masks, pc, combined>>

\* bin_counts raises inside the loop over the orders.
ExtractOrderRaises ==
    /\ pc = "extract"
    /\ n < Zipped
    /\ bin_counts(data, lookup.wavebins[n + 1], MasksOf(pixel_masks, data)[n + 1]).raised
    /\ pc' = "raised"
    /\ UNCHANGED <<data, data0, args, calls, lookup, pixel_masks, n, results, counts, raw, combined>>

\* np.random.normal raises on a negative flux; bin_counts has already
\* multiplied the caller's array.
ExtractNormalRaises ==
    /\ pc = "extract"
    /\ n < Zipped
    /\ LET r == bin_counts(data, lookup.wavebins[n + 1], MasksOf(pixel_masks, data)[n + 1])
       IN  /\ ~r.raised
           /\ NormalRaises(counts_to_flux(lookup.wavelengths[n + 1], r.counts, n + 1))
           /\ data' = r.data
    /\ pc' = "raised"
    /\ UNCHANGED <<data0, args, calls, lookup, pixel_masks, n, results, counts, raw, combined>>

\* One iteration of the loop over range(nframes).
CombineFrame ==
    /\ pc = "extract"
    /\ n = Zipped
    /\ Len(combined) < nframes
    /\ {"order1", "order2"} \subseteq DOMAIN results
    /\ combined' = Append(combined, combine_spectra(Triple(results["order1"], Len(combined)),
                                                    Triple(results["order2"], Len(combined))))
    /\ UNCHANGED <<data, data0, args, calls, lookup, pixel_masks, pc, n, results, counts, raw>>

\* results['order1'] or results['order2'] is missing: KeyError.
CombineRaises ==
    /\ pc = "extract"
    /\ n = Zipped
    /\ Len(combined) < nframes
    /\ ~({"order1", "order2"} \subseteq DOMAIN results)
    /\ pc' = "raised"
    /\ UNCHANGED <<data, data0, args, calls, lookup, pixel_masks, n, results, counts, raw, combined>>

\* The final record is added and results is returned.
Return ==
    /\ pc = "extract"
    /\ n = Zipped
    /\ Len(combined) = nframes
    /\ LET K == Cardinality(DOMAIN combined[1].wave)
           final == [wavelength |-> [shape |-> <<K>>, v |-> combined[1].wave],
                     counts |-> FinalCounts(results, counts),
                     flux |-> [shape |-> <<nframes, K>>,
                               v |-> [f \in Range(nframes) |-> combined[f + 1].flux]],
                     unc |-> [shape |-> <<nframes, K>>,
                              v |-> [f \in Range(nframes) |-> combined[f + 1].unc]]]
       IN  results' = ("final" :> final) @@ results
    /\ pc' = "done"
    /\ UNCHANGED <<data, data0, args, calls, lookup, pixel_masks, n, counts, raw, combined>>

NextExtract == ExtractOrder \/ ExtractOrderRaises \/ ExtractNormalRaises \/ CombineFrame \/ CombineRaises \/ Return

SpecExtract == InitExtract /\ [][NextExtract]_vars

(***************************************************************************)
(* Properties of bin_counts.                                               *)
(***************************************************************************)
SpatialShape(d) == <<d.shape[Len(d.shape) - 1], d.shape[Len(d.shape)]>>

MaskMatches(d, m) == m.kind = "ndarray" /\ m.shape = SpatialShape(d)

\* Sum over the pixel-index pairs of a bin of frame * mask, NaN as zero.
MaskedSum(frame, m, bin) ==
    SeqSum([i \in 1..Len(bin.xpix) |->
              LET c == frame[bin.xpix[i]][bin.ypix[i]]
              IN  IF IsNaN(c) THEN 0 ELSE c[1] * m.v[bin.xpix[i]][bin.ypix[i]]])

\* Sum over the pixel-index pairs of a bin of the frame alone, NaN as zero.
PlainSum(frame, bin) ==
    SeqSum([i \in 1..Len(bin.xpix) |->
              LET c == frame[bin.xpix[i]][bin.ypix[i]]
              IN  IF IsNaN(c) THEN 0 ELSE c[1]])

\* The 3D cube the words "merging the first two axes" describe: its row
\* f*G+g is frame f, group g of the 4D cube.
Merged(d) ==
    LET F == d.shape[1]
        G == d.shape[2]
        at(k) == CHOOSE fg \in Range(F) \X Range(G) : fg[1] * G + fg[2] = k
    IN  [dtype |-> d.dtype, shape |-> <<F * G, d.shape[3], d.shape[4]>>, mergeable |-> TRUE,
         v |-> [k \in Range(F * G) |-> d.v[at(k)[1]][at(k)[2]]]]

\* C1: for a 3D cube and a mask of the cube's spatial shape, bin_counts
\* returns an array of shape (frames, bins) whose entry [f, b] is the sum
\* over bin b's pixel pairs of data[f, x, y] * mask[x, y], NaN as zero.
C1_MaskedSums ==
    \A i \in 1..Len(calls) :
        LET c == calls[i]
            d == c.before
        IN  (Len(d.shape) = 3 /\ MaskMatches(d, args.pixel_mask)) =>
              /\ ~c.raised
              /\ c.counts.shape = <<d.shape[1], Len(args.wavebins)>>
              /\ \A f \in Range(d.shape[1]) : \A b \in Range(Len(args.wavebins)) :
                    c.counts.v[f][b] = MaskedSum(d.v[f], args.pixel_mask, args.wavebins[b + 1])

\* C1 holds of every call that returns (floating-point data, or an
\* integer mask on integer data).
C1_MaskedSumsWhenReturned ==
    \A i \in 1..Len(calls) :
        LET c == calls[i]
            d == c.before
        IN  (Len(d.shape) = 3 /\ MaskMatches(d, args.pixel_mask) /\ ~c.raised) =>
              /\ c.counts.shape = <<d.shape[1], Len(args.wavebins)>>
              /\ \A f \in Range(d.shape[1]) : \A b \in Range(Len(args.wavebins)) :
                    c.counts.v[f][b] = MaskedSum(d.v[f], args.pixel_mask, args.wavebins[b + 1])

ZeroOver(m, bin) == \A i \in 1..Len(bin.xpix) : m.v[bin.xpix[i]][bin.ypix[i]] = 0

\* C2: with a shape-matching mask that is zero at every pixel of a bin,
\* the returned counts of that bin are zero in every frame.
C2_ZeroMaskZeroCounts ==
    \A i \in 1..Len(calls) :
        LET c == calls[i]
            d == c.before
        IN  \A b \in Range(Len(args.wavebins)) :
              (MaskMatches(d, args.pixel_mask) /\ ZeroOver(args.pixel_mask, args.wavebins[b + 1])) =>
                /\ ~c.raised
                /\ \A f \in DOMAIN c.counts.v : c.counts.v[f][b] = 0

\* C3: bin_counts on a 4D cube ends as bin_counts on the cube merged to
\* (F*G, R, C) ends: both raise, or both return the same array.
C3_FourDAsMerged ==
    \A i \in 1..Len(calls) :
        LET c == calls[i]
            d == c.before
            r == bin_counts(Merged(d), args.wavebins, args.pixel_mask)
        IN  Len(d.shape) = 4 => (c.raised = r.raised /\ c.counts = r.counts)

\* A 4D call with several frames and groups returned counts that differ
\* from row to row.
C3_Witness ==
    /\ calls # <<>>
    /\ LET c == calls[1]
       IN  /\ Len(c.before.shape) = 4
           /\ c.before.shape[1] > 1 /\ c.before.shape[2] > 1
           /\ ~c.raised
           /\ c.counts.shape[2] > 0
           /\ c.counts.v[1] # c.counts.v[2]

\* C4: a mask whose shape differs from the data's spatial shape raises
\* nothing and is skipped: the result is that of the call with no mask.
C4_MismatchedMaskSkipped ==
    \A i \in 1..Len(calls) :
        LET c == calls[i]
            d == c.before
            d3 == IF Len(d.shape) = 4 THEN Merged(d) ELSE d
        IN  (args.pixel_mask.kind = "ndarray" /\ ~MaskMatches(d, args.pixel_mask)) =>
              /\ ~c.raised
              /\ c.counts = bin_counts(d, args.wavebins, None).counts
              /\ \A f \in Range(d3.shape[1]) : \A b \in Range(Len(args.wavebins)) :
                    c.counts.v[f][b] = PlainSum(d3.v[f], args.wavebins[b + 1])
              /\ data = d

\* A call with a zero mask of shape (1, 2) returned non-zero counts.
C4_Witness ==
    /\ calls # <<>>
    /\ args.pixel_mask.kind = "ndarray"
    /\ args.pixel_mask.shape = <<1, 2>>
    /\ ~calls[1].raised
    /\ \E f \in DOMAIN calls[1].counts.v : \E b \in DOMAIN calls[1].counts.v[f] :
          calls[1].counts.v[f][b] > 0

\* C8 (bin_counts): after any call the caller's data array holds the
\* values it held before, and a repeated call returns the same counts.
C8_BinCountsPure ==
    /\ data = data0
    /\ \A i \in 1..Len(calls) : calls[i].counts = calls[1].counts

(***************************************************************************)
(* Properties of extract.                                                  *)
(***************************************************************************)
NonDecreasing(w) == \A i, j \in Range(w.shape[1]) : i < j => w.v[i] <= w.v[j]

ColumnPerms(B) == {p \in [Range(B) -> Range(B)] : \A i, j \in Range(B) : i # j => p[i] # p[j]}

\* C5: each order record's wavelength array is non-decreasing, and one
\* permutation of the bins carries the unsorted wavelength, counts, flux
\* and unc columns to the stored ones, row by row.
C5_SortedAndAligned ==
    \A i \in 1..Len(raw) :
        LET rec == results[OrderName(i)]
            inp == raw[i]
            B == inp.wavelength.shape[1]
            N == inp.counts.shape[1]
        IN  /\ NonDecreasing(rec.wavelength)
            /\ rec.wavelength.shape = <<B>>
            /\ rec.counts.shape = <<N, B>> /\ rec.flux.shape = <<N, B>> /\ rec.unc.shape = <<N, B>>
            /\ \E p \in ColumnPerms(B) :
                 \A j \in Range(B) :
                    /\ rec.wavelength.v[j] = inp.wavelength.v[p[j]]
                    /\ \A f \in Range(N) :
                         /\ rec.counts.v[f][j] = inp.counts.v[f][p[j]]
                         /\ rec.flux.v[f][j] = inp.flux.v[f][p[j]]
                         /\ rec.unc.v[f][j] = inp.unc.v[f][p[j]]

\* extract returned, and order 1 came in with decreasing wavelengths and
\* counts that differ between its two bins.
C5_Witness ==
    /\ pc = "done"
    /\ raw[1].wavelength.v[0] > raw[1].wavelength.v[1]
    /\ raw[1].counts.v[0][0] # raw[1].counts.v[0][1]
    /\ results["order1"].counts.v[0][0] = raw[1].counts.v[0][1]

\* C6: the final record has one combined row for each row of the order
\* records: final flux and unc are (rows of order flux) x bins_final, and
\* the final wavelength has bins_final entries.
C6_FinalRowPerOrderRow ==
    pc = "done" =>
        LET final == results["final"]
            rows == results["order1"].flux.shape[1]
            K == final.wavelength.shape[1]
        IN  /\ results["order2"].flux.shape[1] = rows
            /\ final.flux.shape = <<rows, K>>
            /\ final.unc.shape = <<rows, K>>
            /\ \A r \in Range(rows) :
                 LET c == combine_spectra(Triple(results["order1"], r), Triple(results["order2"], r))
                 IN  /\ Cardinality(DOMAIN c.wave) = K
                     /\ final.flux.v[r] = c.flux
                     /\ final.unc.v[r] = c.unc

Supplied == pixel_masks.kind = "list"

\* C7: extract does not return when the number of masks supplied differs
\* from the number of orders the lookup returns.
C7_MaskCountMismatchFails ==
    (Supplied /\ Len(pixel_masks.items) # Len(lookup.wavebins)) => pc # "done"

\* C7, amended: with fewer than two masks supplied extract does not
\* return: once the loop over the orders is over it can only raise.  No
\* other difference between the number of masks and the number of orders
\* is detected: with two masks or more, zip stops at the shorter of masks
\* and orders and never reaches a mask beyond it, both order records
\* exist, so the combination raises no KeyError; extract raises only
\* inside the loop over the orders (the in-place multiply, or
\* np.random.normal) and returns otherwise, with one record per zipped
\* order.
C7_TooFewMasksFails ==
    /\ (Supplied /\ Len(pixel_masks.items) < 2) =>
          /\ pc # "done"
          /\ ~ENABLED CombineFrame
          /\ ~ENABLED Return
          /\ (pc = "extract" => ENABLED NextExtract)
    /\ (Supplied /\ Len(pixel_masks.items) >= 2 /\ Len(lookup.wavebins) >= 2
          /\ Len(pixel_masks.items) # Len(lookup.wavebins)) =>
          /\ Zipped = Min(Len(pixel_masks.items), Len(lookup.wavebins))
          /\ n <= Zipped
          /\ Len(raw) = n
          /\ (pc = "raised" => n < Zipped)
          /\ (pc = "extract" /\ n = Zipped) =>
                /\ {"order1", "order2"} \subseteq DOMAIN results
                /\ Len(combined) <= nframes
          /\ (pc = "extract" /\ n < Zipped) => argsort(lookup.wavelengths[n + 1]) # {}
          /\ (pc = "done") =>
                /\ n = Zipped
                /\ DOMAIN results = {OrderName(i) : i \in 1..Zipped} \cup {"final"}

\* extract raised on the missing order2 record after extracting order 1
\* with the one mask supplied.
C7_Witness ==
    /\ Supplied
    /\ Len(pixel_masks.items) = 1
    /\ pc = "raised"
    /\ DOMAIN results = {"order1"}

\* C7: extract returned although three masks were supplied for two orders.
C7_SurplusWitness ==
    /\ Supplied
    /\ Len(pixel_masks.items) = 3
    /\ Len(lookup.wavebins) = 2
    /\ pc = "done"

\* C9: each order's counts, before the sort, are bin_counts of the
\* caller's original cube with that order's bins and that order's mask.
C9_OwnMaskOnly ==
    \A i \in 1..Len(raw) :
        raw[i].counts = bin_counts(data0, lookup.wavebins[i], MasksOf(pixel_masks, data0)[i]).counts

\* C10: the counts of the final record are the sorted counts of the last
\* order extracted (order2 when two orders are), with that order's number
\* of bins as columns.
C10_FinalCountsAreLastOrder ==
    pc = "done" =>
        /\ results["final"].counts = results[OrderName(n)].counts
        /\ results["final"].counts.shape[2] = Len(lookup.wavebins[n])
        /\ n = 2 => results["final"].counts = results["order2"].counts

\* extract returned after two orders, and the final counts have fewer
\* columns than the final wavelength has entries and are not order 1's.
C10_Witness ==
    /\ pc = "done"
    /\ n = 2
    /\ results["final"].counts.shape[2] # results["final"].wavelength.shape[1]
    /\ results["final"].counts # results["order1"].counts

====
